---- MODULE Spec2Model ----
(***************************************************************************)
(* A model of dcflags (src/dcflags/_src.py): parse() binds the fields of a *)
(* dataclass to command-line arguments, environment variables and field    *)
(* defaults, and _to_type() converts the raw strings to the field types.   *)
(*                                                                         *)
(* Python strings are modelled as sequences of one-character strings, so   *)
(* that lower(), upper(), replace(), int() and the csv split are computed  *)
(* character by character.  Python values are tagged records.              *)
(***************************************************************************)
EXTENDS Integers, Sequences, FiniteSets, TLC

\* ------------------------------------------------------------------ bounds

\* The longest schema (number of dataclass fields) that is explored.
MaxFields == 2

\* The longest list of items given to _to_type in the coercion checks.
MaxItems == 2

\* ------------------------------------------------------------ Python values

VNone == [k |-> "none"]
VStr(s) == [k |-> "str", v |-> s]
VBool(b) == [k |-> "bool", v |-> b]
VInt(n) == [k |-> "int", v |-> n]
VList(xs) == [k |-> "list", v |-> xs]
\* An arbitrary object that is not a str, bool, int, list or None.
VObj(id) == [k |-> "obj", v |-> id]

\* WrappedDefault (class): marks an argparse default as "not supplied by the user".
WrappedDefault(value) == [k |-> "wrapped", v |-> value]

\* dataclasses.MISSING
MISSING == [k |-> "MISSING"]

\* A default factory (a callable without arguments).
Factory == [k |-> "factory"]

\* No result yet.
Pending == [k |-> "pending"]

\* ------------------------------------------------------------ str methods

UpperToLower ==
    [c \in {"A","B","C","D","E","F","G","H","I","J","K","L","M",
            "N","O","P","Q","R","S","T","U","V","W","X","Y","Z"} |->
        CASE c = "A" -> "a" [] c = "B" -> "b" [] c = "C" -> "c" [] c = "D" -> "d"
          [] c = "E" -> "e" [] c = "F" -> "f" [] c = "G" -> "g" [] c = "H" -> "h"
          [] c = "I" -> "i" [] c = "J" -> "j" [] c = "K" -> "k" [] c = "L" -> "l"
          [] c = "M" -> "m" [] c = "N" -> "n" [] c = "O" -> "o" [] c = "P" -> "p"
          [] c = "Q" -> "q" [] c = "R" -> "r" [] c = "S" -> "s" [] c = "T" -> "t"
          [] c = "U" -> "u" [] c = "V" -> "v" [] c = "W" -> "w" [] c = "X" -> "x"
          [] c = "Y" -> "y" [] c = "Z" -> "z"]

\* str.lower()
lower(s) ==
    [j \in 1..Len(s) |-> IF s[j] \in DOMAIN UpperToLower THEN UpperToLower[s[j]] ELSE s[j]]

\* str.upper()
upper(s) ==
    [j \in 1..Len(s) |->
        IF \E c \in DOMAIN UpperToLower : UpperToLower[c] = s[j]
        THEN CHOOSE c \in DOMAIN UpperToLower : UpperToLower[c] = s[j]
        ELSE s[j]]

\* str(v) for the values that reach _to_type: a str is itself, True/False/None
\* print their names, any other object prints an opaque representation.
PyStr(v) ==
    CASE v.k = "str" -> v.v
      [] v.k = "bool" -> IF v.v THEN <<"T","r","u","e">> ELSE <<"F","a","l","s","e">>
      [] v.k = "none" -> <<"N","o","n","e">>
      [] OTHER -> <<"<","o","b","j",">">>

\* bool(v): Python truthiness, as used by "if not v".
Truthy(v) ==
    CASE v.k = "str" -> v.v # <<>>
      [] v.k = "list" -> v.v # <<>>
      [] v.k = "bool" -> v.v
      [] v.k = "int" -> v.v # 0
      [] v.k = "none" -> FALSE
      [] OTHER -> TRUE

\* --------------------------------------------------------------- constants

TRUE_WORDS ==
    { <<"y">>, <<"y","e","s">>, <<"t">>, <<"t","r","u","e">>, <<"o","n">>, <<"1">> }

FALSE_WORDS ==
    { <<"n">>, <<"n","o">>, <<"f">>, <<"f","a","l","s","e">>, <<"o","f","f">>, <<"0">> }

NONE_WORDS == { <<"n","o","n","e">>, <<"n","u","l","l">> }

\* ------------------------------------------------------------------- types

TNone == [tag |-> "none"]
TAny == [tag |-> "any"]
TBool == [tag |-> "bool"]
TInt == [tag |-> "int"]
TStr == [tag |-> "str"]
TUnion(args) == [tag |-> "union", args |-> args]
TList(args) == [tag |-> "list", args |-> args]
\* A dataclass used as the type of a field (a nested record type).
TInner == [tag |-> "dataclass"]
Optional(t) == TUnion(<<t, TNone>>)

_is_list(t) == t.tag = "list"
_is_union(t) == t.tag = "union"
_is_none(t) == t.tag = "none"
is_dataclass(t) == t.tag = "dataclass"

\* typing.get_args(t)
get_args(t) == IF t.tag \in {"union", "list"} THEN t.args ELSE <<>>

\* getattr(t, '__name__', repr(t)) as printed in the error line.  The types
\* are the typing spellings: a union is typing.Union[...], which is named
\* Optional when it has two arguments of which one is NoneType and Union
\* otherwise; a list is typing.List or typing.List[x], and with more than one
\* argument, which typing.List does not take, the builtin list[x, y].
TypeName(t) ==
    CASE t.tag = "none" -> "NoneType"
      [] t.tag = "any" -> "Any"
      [] t.tag = "bool" -> "bool"
      [] t.tag = "int" -> "int"
      [] t.tag = "str" -> "str"
      [] t.tag = "dataclass" -> "Inner"
      [] t.tag = "list" -> IF Len(t.args) > 1 THEN "list" ELSE "List"
      [] t.tag = "union" ->
            IF Len(t.args) = 2 /\ \E l \in 1..2 : t.args[l].tag = "none"
            THEN "Optional" ELSE "Union"

\* -------------------------------------------------------------- exceptions

Ok(val) == [ok |-> TRUE, val |-> val]
Raise(type, msg) == [ok |-> FALSE, exc |-> [type |-> type, msg |-> msg]]

\* ------------------------------------------------------------------- int()

Digits == {"0","1","2","3","4","5","6","7","8","9"}

DigitVal(c) ==
    CASE c = "0" -> 0 [] c = "1" -> 1 [] c = "2" -> 2 [] c = "3" -> 3 [] c = "4" -> 4
      [] c = "5" -> 5 [] c = "6" -> 6 [] c = "7" -> 7 [] c = "8" -> 8 [] c = "9" -> 9

RECURSIVE DigitsVal(_)
DigitsVal(s) ==
    IF s = <<>> THEN 0 ELSE 10 * DigitsVal(SubSeq(s, 1, Len(s) - 1)) + DigitVal(s[Len(s)])

\* int(v) for a str over the alphabet of letters, digits, sign and comma (no
\* blanks or underscores): an optional sign followed by one or more digits.
\* int() of an object that is no str or number is a TypeError.
IntCtor(v) ==
    IF v.k # "str" THEN Raise("TypeError", "int() argument")
    ELSE LET s == v.v
             signed == s # <<>> /\ s[1] \in {"+", "-"}
             body == IF signed THEN Tail(s) ELSE s
         IN  IF body # <<>> /\ \A j \in 1..Len(body) : body[j] \in Digits
             THEN Ok(VInt(IF signed /\ s[1] = "-" THEN 0 - DigitsVal(body) ELSE DigitsVal(body)))
             ELSE Raise("ValueError", "invalid literal for int()")

\* str(v)
StrCtor(v) == Ok(VStr(PyStr(v)))

\* ---------------------------------------------------------------- _to_type

\* Iterating v: the items of a list, the characters of a str.
Items(v) ==
    CASE v.k = "list" -> v.v
      [] v.k = "str" -> [j \in 1..Len(v.v) |-> VStr(<<v.v[j]>>)]
      [] OTHER -> <<>>

\* Mutant of ToBool: the keywords are matched without lower().
ToBool_CaseSensitive(v) ==
    IF PyStr(v) \in TRUE_WORDS THEN Ok(VBool(TRUE))
    ELSE IF PyStr(v) \in FALSE_WORDS THEN Ok(VBool(FALSE))
    ELSE Raise("ValueError", "invalid bool value")

\* The bool branch of _to_type.
ToBool(v) ==
    IF lower(PyStr(v)) \in TRUE_WORDS THEN Ok(VBool(TRUE))
    ELSE IF lower(PyStr(v)) \in FALSE_WORDS THEN Ok(VBool(FALSE))
    ELSE Raise("ValueError", "invalid bool value")

\* The None branch of _to_type.
ToNone(v) ==
    IF ~Truthy(v) THEN Ok(VNone)
    ELSE IF lower(PyStr(v)) \in NONE_WORDS THEN Ok(VNone)
    ELSE Raise("ValueError", "invalid None value")

\* What the union loop does with the result r of one alternative: a result is
\* returned, an exception is swallowed ("except Exception: pass").
UnionKeeps(r) == r.ok

\* The depth the union branch passes on to an alternative: _to_type(t_, v)
\* leaves depth at its default of 0, whatever the depth of the union itself.
UnionDepth(depth) == 0

RECURSIVE _to_type(_, _, _)
RECURSIVE UnionLoop(_, _, _, _)
RECURSIVE ListLoop(_, _, _, _)

\* The loop over typing.get_args(t) of the union branch.
UnionLoop(args, v, is_optional, depth) ==
    IF args = <<>>
    THEN IF ~is_optional THEN Raise("ValueError", "could not convert") ELSE Ok(VNone)
    ELSE IF _is_none(Head(args))
         THEN UnionLoop(Tail(args), v, TRUE, depth)
         ELSE LET r == _to_type(Head(args), v, UnionDepth(depth))
              IN  IF UnionKeeps(r) THEN r ELSE UnionLoop(Tail(args), v, is_optional, depth)

\* The list comprehension of the list branch: the first item that fails ends it.
ListLoop(tt, items, depth, acc) ==
    IF items = <<>> THEN Ok(VList(acc))
    ELSE LET r == _to_type(tt, Head(items), depth + 1)
         IN  IF r.ok THEN ListLoop(tt, Tail(items), depth, Append(acc, r.val)) ELSE r

_to_type(t, v, depth) ==
    IF _is_none(t) THEN ToNone(v)
    ELSE IF t.tag = "any" THEN Ok(v)
    ELSE IF t.tag = "bool" THEN ToBool(v)
    ELSE IF _is_union(t) THEN UnionLoop(get_args(t), v, FALSE, depth)
    ELSE IF _is_list(t) THEN
        IF depth > 0 THEN Raise("ValueError", "nested lists are not supported")
        ELSE IF Len(get_args(t)) > 1 THEN Raise("ValueError", "invalid list type")
        ELSE ListLoop(IF Len(get_args(t)) = 1 THEN get_args(t)[1] ELSE TAny, Items(v), depth, <<>>)
    ELSE IF is_dataclass(t) THEN Raise("ValueError", "nested dataclasses are not supported")
    ELSE IF t.tag = "int" THEN IntCtor(v)
    ELSE StrCtor(v)

\* ------------------------------------------------------------ csv.reader

RECURSIVE CsvFields(_, _)
\* The fields of one csv line over an alphabet without quote characters:
\* cur is the field being read.  The line is split at every comma.
CsvFields(s, cur) ==
    IF s = <<>> THEN <<VStr(cur)>>
    ELSE IF Head(s) = "," THEN <<VStr(cur)>> \o CsvFields(Tail(s), <<>>)
    ELSE CsvFields(Tail(s), Append(cur, Head(s)))

\* list(csv.reader([value]))[0]: an empty line is a row without fields.
CsvRow(value) == VList(IF value.v = <<>> THEN <<>> ELSE CsvFields(value.v, <<>>))

\* ------------------------------------------------------------------ names

RECURSIVE replace(_, _, _)
\* str.replace(old, new) for one-character old and new.
replace(s, old, new) ==
    IF s = <<>> THEN <<>>
    ELSE <<IF Head(s) = old THEN new ELSE Head(s)>> \o replace(Tail(s), old, new)

as_env_var(name, prefix) == prefix \o upper(name)

as_cmd_arg(name, underscore_to_dash) ==
    IF ~underscore_to_dash THEN name ELSE replace(name, "_", "-")

RECURSIVE Join(_, _)
\* sep.join(strs)
Join(sep, strs) ==
    IF strs = <<>> THEN <<>>
    ELSE IF Len(strs) = 1 THEN strs[1]
    ELSE strs[1] \o sep \o Join(sep, Tail(strs))

\* ------------------------------------------------------------------ inputs

\* The raw strings used as inputs.
S_empty == <<>>
S_1 == <<"1">>
S_x == <<"x">>
S_No == <<"N","o">>
S_ON == <<"O","N">>

\* The flag of a field is not on the command line.
Absent == [k |-> "absent"]

\* The names of the fields of the schema, by position.
FieldNames == << <<"u","_","a">>, <<"b">>, <<"c","_","d">>, <<"e">> >>

\* The field types of the schemas explored by parse.
TListListInt == TList(<<TList(<<TInt>>)>>)
TListIntStr == TList(<<TInt, TStr>>)
TUnionIntBool == TUnion(<<TInt, TBool>>)
ParseTypes == {TBool, TInt, TListListInt, TInner, TListIntStr, TUnionIntBool}

\* A default value and the result of a default factory: objects that no
\* coercion would leave unchanged.
DefaultObject == VObj("default")
FactoryObject == VObj("factory()")

\* field.default and field.default_factory of a field of type t.  A dataclass
\* takes at most one of the two, and no list literal as a default.
DefaultChoices(t) ==
    CASE t.tag \in {"bool", "int"} ->
            { [default |-> MISSING, default_factory |-> MISSING],
              [default |-> DefaultObject, default_factory |-> MISSING],
              [default |-> MISSING, default_factory |-> Factory] }
      [] t = TListListInt ->
            { [default |-> MISSING, default_factory |-> MISSING],
              [default |-> MISSING, default_factory |-> Factory] }
      [] OTHER -> { [default |-> MISSING, default_factory |-> MISSING] }

\* What the command line gives for the flag of a field of type t: nothing, or
\* what argparse stores (True for a bare bool flag, a list for a list flag,
\* the argument string otherwise).
ArgvChoices(t) ==
    CASE t.tag = "bool" -> {Absent, VBool(TRUE), VStr(S_No)}
      [] t.tag = "int" -> {Absent, VStr(S_1), VStr(S_x)}
      [] t = TListListInt -> {Absent, VList(<<>>), VList(<<VStr(S_1)>>)}
      [] t.tag = "dataclass" -> {Absent, VStr(S_1)}
      [] OTHER -> {Absent}

\* What the environment holds for the variable of a field of type t: VNone
\* when the variable is not set.
EnvChoices(t) ==
    CASE t.tag = "bool" -> {VNone, VStr(S_ON)}
      [] t.tag = "int" -> {VNone, VStr(S_empty)}
      [] t = TListListInt -> {VNone, VStr(S_empty)}
      [] t.tag = "dataclass" -> {VNone, VStr(S_1)}
      [] t.tag = "union" -> {VNone, VStr(S_x)}
      [] OTHER -> {VNone}

\* One field of a schema with the inputs that concern it.
FieldInputs ==
    UNION { { [type |-> t, default |-> d.default, default_factory |-> d.default_factory,
               argv |-> a, env |-> e] :
                d \in DefaultChoices(t), a \in ArgvChoices(t), e \in EnvChoices(t) } :
            t \in ParseTypes }

\* (env_prefix, underscore_to_dash): the defaults of parse, and both changed.
OptionChoices ==
    { [env_prefix |-> <<>>, underscore_to_dash |-> TRUE],
      [env_prefix |-> <<"P","_">>, underscore_to_dash |-> FALSE] }

\* The types and raw values given to _to_type on its own.
CoerceTypes ==
    { TNone, TAny, TBool, TInt, TStr, TInner,
      Optional(TInt), Optional(TStr), Optional(TBool), Optional(TInner),
      TUnion(<<TNone, TInt>>), TUnion(<<TInt, TBool>>), Optional(TList(<<TInt>>)) }

CoerceListTypes ==
    { TList(<<>>), TList(<<TInt>>), TList(<<TBool>>), TList(<<Optional(TInt)>>),
      TListListInt, TList(<<Optional(TList(<<TInt>>))>>), TList(<<TInner>>), TListIntStr }

CoerceStrings ==
    { <<>>, <<"n","o","n","e">>, <<"N","o","n","e">>, <<"n","u","l","l">>, <<"N","U","L","L">>,
      <<"y">>, <<"Y">>, <<"y","e","s">>, <<"Y","e","s">>, <<"t">>, <<"t","r","u","e">>,
      <<"T","R","U","E">>, <<"o","n">>, <<"O","n">>, <<"1">>,
      <<"n">>, <<"N">>, <<"n","o">>, <<"N","O">>, <<"f">>, <<"f","a","l","s","e">>,
      <<"F","a","l","s","e">>, <<"o","f","f">>, <<"O","F","F">>, <<"0">>,
      <<"x">>, <<"y","e">>, <<"y","e","s","s">>, <<"o">>, <<"2">>, <<"1","2">>, <<"-","3">>,
      <<"1","x">>, <<"t","r","u","e","1">> }

CoerceItems == { <<>>, <<"1">>, <<"1","2">>, <<"x">>, <<"n","o">> }

\* The lists of at most MaxItems strings.
CoerceLists ==
    UNION { { VList([j \in 1..n |-> VStr(f[j])]) : f \in [1..n -> CoerceItems] } : n \in 0..MaxItems }

\* ------------------------------------------------------------------- state

VARIABLES
    config_type,        \* [is_dataclass, fields]: the type given to parse
    env_prefix,         \* argument of parse
    underscore_to_dash, \* argument of parse
    argv,               \* field name -> what the command line gives for its flag
    environ,            \* os.environ: variable name -> VStr, VNone when not set
    pc,                 \* "start", "resolve", "returned", "exit", "raised"; "idle": no parse
    parsed_args,        \* the namespace of parser.parse_args(argv)
    i,                  \* 1-based position of the field the loop resolves next
    config,             \* the dict config: field name -> value
    missing,            \* the list missing
    factory_calls,      \* field name -> number of calls of its default factory
    environ_gets,       \* variable name -> number of os.environ.get calls for it
    stdout,             \* what has been printed
    exit_status,        \* the argument of sys.exit, -1 while there was no exit
    exc,                \* the exception that left parse, VNone when none did
    caught,             \* the exception the env branch caught, VNone when none
    instance,           \* the instance parse returned, VNone when none
    call_t,             \* _to_type on its own: the type
    call_v,             \* _to_type on its own: the raw value
    call_ret            \* _to_type on its own: Pending, or its result

parse_vars ==
    << config_type, env_prefix, underscore_to_dash, argv, environ, pc, parsed_args, i,
       config, missing, factory_calls, environ_gets, stdout, exit_status, exc, caught,
       instance >>

call_vars == << call_t, call_v, call_ret >>

vars == << parse_vars, call_vars >>

fields == config_type.fields
NFields == Len(fields)
Name(j) == FieldNames[j]
EnvName(j) == as_env_var(Name(j), env_prefix)
CmdName(j) == as_cmd_arg(Name(j), underscore_to_dash)

\* ----------------------------------------------------------------- parse

\* The state at the call of parse: a config type, the options, a command
\* line and an environment, drawn from the input sets.  A field without a
\* default may follow one with a default (a dataclass with kw_only=True).
ParseInit ==
    /\ \E o \in OptionChoices :
        /\ env_prefix = o.env_prefix
        /\ underscore_to_dash = o.underscore_to_dash
        /\ \/ /\ config_type = [is_dataclass |-> FALSE, fields |-> <<>>]
              /\ argv = <<>>
              /\ environ = <<>>
           \/ \E n \in 1..MaxFields : \E fs \in [1..n -> FieldInputs] :
              /\ config_type =
                    [is_dataclass |-> TRUE,
                     fields |-> [j \in 1..n |->
                        [type |-> fs[j].type, default |-> fs[j].default,
                         default_factory |-> fs[j].default_factory]]]
              /\ argv = [nm \in {FieldNames[j] : j \in 1..n} |->
                            fs[CHOOSE j \in 1..n : FieldNames[j] = nm].argv]
              /\ environ = [nm \in {as_env_var(FieldNames[j], o.env_prefix) : j \in 1..n} |->
                            fs[CHOOSE j \in 1..n :
                                as_env_var(FieldNames[j], o.env_prefix) = nm].env]
    /\ pc = "start"
    /\ parsed_args = <<>>
    /\ i = 0
    /\ config = <<>>
    /\ missing = <<>>
    /\ factory_calls = [nm \in DOMAIN argv |-> 0]
    /\ environ_gets = [nm \in DOMAIN environ |-> 0]
    /\ stdout = <<>>
    /\ exit_status = -1
    /\ exc = VNone
    /\ caught = VNone
    /\ instance = VNone

\* No call of _to_type on its own.
CallIdle == call_t = TNone /\ call_v = VNone /\ call_ret = Pending

\* No call of parse.
ParseIdle ==
    /\ config_type = [is_dataclass |-> FALSE, fields |-> <<>>]
    /\ env_prefix = <<>>
    /\ underscore_to_dash = TRUE
    /\ argv = <<>>
    /\ environ = <<>>
    /\ pc = "idle"
    /\ parsed_args = <<>>
    /\ i = 0
    /\ config = <<>>
    /\ missing = <<>>
    /\ factory_calls = <<>>
    /\ environ_gets = <<>>
    /\ stdout = <<>>
    /\ exit_status = -1
    /\ exc = VNone
    /\ caught = VNone
    /\ instance = VNone

\* The arguments of a call of _to_type as parse can make it: a list value
\* goes with a list type.
CallInit ==
    /\ \/ call_t \in CoerceTypes /\ call_v \in { VStr(x) : x \in CoerceStrings }
       \/ call_t \in CoerceListTypes /\ call_v \in CoerceLists
    /\ call_ret = Pending

\* The program is called once: parse, or _to_type on its own.
Init == (ParseInit /\ CallIdle) \/ (ParseIdle /\ CallInit)

\* The first field, if any, whose registration raises: a list type with more
\* than one argument.
BadListFields == { j \in 1..NFields : _is_list(fields[j].type) /\ Len(get_args(fields[j].type)) > 1 }

\* parser.parse_args(argv): a flag that is not given holds its registered
\* default (the wrapped field default) or None.
ParseArgs ==
    [nm \in DOMAIN argv |->
        LET field == fields[CHOOSE j \in 1..NFields : Name(j) = nm]
        IN  IF argv[nm] # Absent THEN argv[nm]
            ELSE IF field.default # MISSING THEN WrappedDefault(field.default)
            ELSE VNone]

\* Lines 117-154: the dataclass check, the registration of one flag per field
\* and the parsing of the command line.
Begin ==
    /\ pc = "start"
    /\ IF ~config_type.is_dataclass
       THEN /\ pc' = "raised"
            /\ exc' = Raise("TypeError", "the config type must be a dataclass").exc
            /\ UNCHANGED << parsed_args, i >>
       ELSE IF BadListFields # {}
       THEN /\ pc' = "raised"
            /\ exc' = Raise("ValueError", "invalid list type").exc
            /\ UNCHANGED << parsed_args, i >>
       ELSE /\ pc' = "resolve"
            /\ parsed_args' = ParseArgs
            /\ i' = 1
            /\ UNCHANGED exc
    /\ UNCHANGED << config_type, env_prefix, underscore_to_dash, argv, environ, config, missing,
                    factory_calls, environ_gets, stdout, exit_status, caught, instance >>
    /\ UNCHANGED call_vars

\* "value is not None and not isinstance(value, WrappedDefault)"
CliSupplied(value) == value # VNone /\ value.k # "wrapped"

\* Mutant of EnvPresent: "if value:", which takes an empty string for unset.
EnvPresent_Truthy(value) == value # VNone /\ Truthy(value)

\* "if value is not None" of the env branch
EnvPresent(value) == value # VNone

\* Mutant of Source: the environment is looked up before the command line.
Source_EnvFirst(value, envvalue) ==
    IF envvalue # VNone THEN "env"
    ELSE IF value # VNone /\ value.k # "wrapped" THEN "cli"
    ELSE "default"

\* The source that resolves a field: the command line when it supplied a
\* value, else the environment when the variable is set, else the default.
\* The code reads the environment only once the command line gave nothing:
\* the actions count that read in environ_gets.
Source(value, envvalue) ==
    IF CliSupplied(value) THEN "cli"
    ELSE IF EnvPresent(envvalue) THEN "env"
    ELSE "default"

\* The conversion of a command-line value (lines 161-164): a bool given to a
\* bool field is stored as it is.
CliConvert(t, value) ==
    IF t.tag = "bool" /\ value.k = "bool" THEN Ok(value) ELSE _to_type(t, value, 0)

\* The conversion of an environment value (lines 173-184): the value of a list
\* field is first read as one csv row.  Over the alphabet modelled here the
\* csv reader does not fail.
EnvConvert(t, value) ==
    _to_type(t, IF _is_list(t) THEN CsvRow(value) ELSE value, 0)

\* The printed error line of a failed environment conversion.
EnvErrorLine(j, value) ==
    [what |-> "error", argument |-> <<"$">> \o EnvName(j), invalid |-> TypeName(fields[j].type),
     value |-> value]

\* Mutant of RequiredLine: only the first missing field is named.
RequiredLine_First(names) ==
    [what |-> "error", required |-> names[1]]

\* The printed error line of the missing fields.
RequiredLine(names) ==
    [what |-> "error", required |-> Join(<<",", " ">>, names)]

UsageLine == [what |-> "usage"]

\* Mutant of AfterExit: the exit is left out and the loop goes on ("continue").
AfterExit_Continue(j) == [pc |-> "resolve", i |-> j + 1]

\* Where the call stands after sys.exit(1) at field j: it has ended, at j.
AfterExit(j) == [pc |-> "exit", i |-> j]

\* Mutant of DefaultOf: the default goes through the str constructor.
DefaultOf_Str(field) == VStr(PyStr(field.default))

\* The value stored for a field that has a default value.
DefaultOf(field) == field.default

\* The entry of the list missing for field j.
MissingEntry(j) == <<"-","-">> \o CmdName(j) \o <<"/","$">> \o EnvName(j)

Put(d, key, val) == (key :> val) @@ d

\* Lines 159-165: the command line supplied a value for field i.
ResolveCli ==
    /\ pc = "resolve" /\ i <= NFields
    /\ Source(parsed_args[Name(i)], environ[EnvName(i)]) = "cli"
    /\ LET r == CliConvert(fields[i].type, parsed_args[Name(i)])
       IN  IF r.ok
           THEN /\ config' = Put(config, Name(i), r.val)
                /\ i' = i + 1
                /\ UNCHANGED << pc, exc >>
           ELSE /\ pc' = "raised"
                /\ exc' = r.exc
                /\ UNCHANGED << config, i >>
    /\ UNCHANGED << config_type, env_prefix, underscore_to_dash, argv, environ, parsed_args,
                    missing, factory_calls, environ_gets, stdout, exit_status, caught, instance >>
    /\ UNCHANGED call_vars

\* Lines 167-194: no command-line value, the environment variable is set.
ResolveEnv ==
    /\ pc = "resolve" /\ i <= NFields
    /\ Source(parsed_args[Name(i)], environ[EnvName(i)]) = "env"
    /\ environ_gets' = [environ_gets EXCEPT ![EnvName(i)] = @ + 1]
    /\ LET value == environ[EnvName(i)]
           r == EnvConvert(fields[i].type, value)
       IN  IF r.ok
           THEN /\ config' = Put(config, Name(i), r.val)
                /\ i' = i + 1
                /\ UNCHANGED << pc, stdout, exit_status, caught >>
           ELSE /\ caught' = r.exc
                /\ stdout' = stdout \o << UsageLine,
                        EnvErrorLine(i, IF _is_list(fields[i].type) THEN CsvRow(value) ELSE value) >>
                /\ exit_status' = 1
                /\ pc' = AfterExit(i).pc
                /\ i' = AfterExit(i).i
                /\ UNCHANGED config
    /\ UNCHANGED << config_type, env_prefix, underscore_to_dash, argv, environ, parsed_args,
                    missing, factory_calls, exc, instance >>
    /\ UNCHANGED call_vars

\* Lines 196-207: neither a command-line value nor an environment value.
ResolveDefault ==
    /\ pc = "resolve" /\ i <= NFields
    /\ Source(parsed_args[Name(i)], environ[EnvName(i)]) = "default"
    /\ environ_gets' = [environ_gets EXCEPT ![EnvName(i)] = @ + 1]
    /\ IF fields[i].default # MISSING
       THEN /\ config' = Put(config, Name(i), DefaultOf(fields[i]))
            /\ UNCHANGED << missing, factory_calls >>
       ELSE IF fields[i].default_factory # MISSING
       THEN /\ factory_calls' = [factory_calls EXCEPT ![Name(i)] = @ + 1]
            /\ config' = Put(config, Name(i), FactoryObject)
            /\ UNCHANGED missing
       ELSE /\ missing' = Append(missing, MissingEntry(i))
            /\ UNCHANGED << config, factory_calls >>
    /\ i' = i + 1
    /\ UNCHANGED << config_type, env_prefix, underscore_to_dash, argv, environ, pc, parsed_args,
                    stdout, exit_status, exc, caught, instance >>
    /\ UNCHANGED call_vars

\* Lines 208-215: after the loop, the missing fields are reported or the
\* instance is built.
Finish ==
    /\ pc = "resolve" /\ i > NFields
    /\ IF missing # <<>>
       THEN /\ stdout' = stdout \o << UsageLine, RequiredLine(missing) >>
            /\ exit_status' = 1
            /\ pc' = "exit"
            /\ UNCHANGED instance
       ELSE /\ instance' = config
            /\ pc' = "returned"
            /\ UNCHANGED << stdout, exit_status >>
    /\ UNCHANGED << config_type, env_prefix, underscore_to_dash, argv, environ, parsed_args, i,
                    config, missing, factory_calls, environ_gets, exc, caught >>
    /\ UNCHANGED call_vars

\* A call _to_type(call_t, call_v) with the default depth.
Call ==
    /\ pc = "idle"
    /\ call_ret = Pending
    /\ call_ret' = _to_type(call_t, call_v, 0)
    /\ UNCHANGED << call_t, call_v >>
    /\ UNCHANGED parse_vars

Next == Begin \/ ResolveCli \/ ResolveEnv \/ ResolveDefault \/ Finish \/ Call

Spec == Init /\ [][Next]_vars

\* ------------------------------------------------------------------ claims

\* The exceptions that tell of a value that does not convert, and those that
\* tell of a schema that parse does not support.
ConversionMessages ==
    { "invalid None value", "invalid bool value", "could not convert",
      "invalid literal for int()", "int() argument" }

SchemaMessages ==
    { "the config type must be a dataclass", "nested dataclasses are not supported",
      "nested lists are not supported", "invalid list type" }

\* The value Python gives for a command-line value of the input sets, Absent
\* where the conversion fails.
C1_Expected(t, a) ==
    CASE a.k = "bool" /\ t.tag = "bool" -> a
      [] a.k = "str" /\ t.tag = "bool" /\ a.v = <<"N","o">> -> VBool(FALSE)
      [] a.k = "str" /\ t.tag = "int" /\ a.v = <<"1">> -> VInt(1)
      [] a.k = "list" /\ t.tag = "list" /\ a.v = <<>> -> VList(<<>>)
      [] OTHER -> Absent

\* C1: a field whose flag is on the command line (a bare bool flag and a list
\* flag without items included) holds the value converted from the command
\* line alone, whatever its environment variable and its default are; its
\* environment variable is not looked up and its default factory is not called.
C1_CommandLineWins ==
    \A j \in 1..NFields :
        argv[Name(j)] # Absent =>
            /\ environ_gets[EnvName(j)] = 0
            /\ factory_calls[Name(j)] = 0
            /\ j < i => Name(j) \in DOMAIN config
            /\ Name(j) \in DOMAIN config =>
                    config[Name(j)] = C1_Expected(fields[j].type, argv[Name(j)])

\* C1 witness: parse returned with a field taken from the command line although
\* its environment variable was set and it had a default.
C1_Witness ==
    /\ pc = "returned"
    /\ \E j \in 1..NFields :
        /\ argv[Name(j)] # Absent
        /\ environ[EnvName(j)] # VNone
        /\ fields[j].default # MISSING
        /\ instance[Name(j)] = VBool(TRUE)

\* The value Python gives for an environment value of the input sets, Absent
\* where the conversion fails.
C2_Expected(t, e) ==
    CASE t.tag = "bool" /\ e.v = <<"O","N">> -> VBool(TRUE)
      [] t.tag = "list" /\ e.v = <<>> -> VList(<<>>)
      [] OTHER -> Absent

\* C2: for a field without a command-line value whose environment variable is
\* set (to the empty string included), the default is never used and the
\* default factory never called: the field holds the converted environment
\* value, or the call ended at this field with the conversion failure.
C2_EnvironmentBeatsDefault ==
    \A j \in 1..NFields :
        (argv[Name(j)] = Absent /\ environ[EnvName(j)] # VNone) =>
            /\ factory_calls[Name(j)] = 0
            /\ Name(j) \in DOMAIN config =>
                    config[Name(j)] = C2_Expected(fields[j].type, environ[EnvName(j)])
            /\ j < i => Name(j) \in DOMAIN config
            /\ (j = i /\ pc # "resolve") =>
                    /\ pc = "exit" /\ exit_status = 1 /\ caught # VNone
                    /\ Name(j) \notin DOMAIN config

\* C2 witness: a field with a default factory was resolved from an environment
\* variable set to the empty string.
C2_Witness ==
    \E j \in 1..NFields :
        /\ j < i
        /\ argv[Name(j)] = Absent
        /\ environ[EnvName(j)] = VStr(<<>>)
        /\ fields[j].default_factory # MISSING
        /\ config[Name(j)] = VList(<<>>)

\* C3: a resolved field with neither a command-line nor an environment value
\* holds its default value as it is when it has one, and else, when it has a
\* default factory, the result of the one call of the factory.  The factory
\* of a field is never called before the field is resolved, never twice, and
\* never when the field has a command-line value, an environment value or a
\* default value.
C3_DefaultsVerbatimFactoryOnce ==
    \A j \in 1..NFields :
        /\ factory_calls[Name(j)] <= 1
        /\ j >= i => factory_calls[Name(j)] = 0
        /\ ( \/ argv[Name(j)] # Absent
             \/ environ[EnvName(j)] # VNone
             \/ fields[j].default # MISSING ) => factory_calls[Name(j)] = 0
        /\ (j < i /\ argv[Name(j)] = Absent /\ environ[EnvName(j)] = VNone) =>
            /\ fields[j].default # MISSING =>
                    /\ Name(j) \in DOMAIN config
                    /\ config[Name(j)] = fields[j].default
            /\ (fields[j].default = MISSING /\ fields[j].default_factory # MISSING) =>
                    /\ factory_calls[Name(j)] = 1
                    /\ Name(j) \in DOMAIN config
                    /\ config[Name(j)] = FactoryObject

\* C3 witness: parse returned an instance with one field from its default
\* value and one from its default factory.
C3_Witness ==
    /\ pc = "returned"
    /\ \E j, l \in 1..NFields :
        /\ argv[Name(j)] = Absent /\ environ[EnvName(j)] = VNone
        /\ instance[Name(j)] = DefaultObject
        /\ argv[Name(l)] = Absent /\ environ[EnvName(l)] = VNone
        /\ factory_calls[Name(l)] = 1
        /\ instance[Name(l)] = FactoryObject

\* The fields without command-line value, environment value, default or factory.
C4_Missing ==
    { j \in 1..NFields :
        /\ argv[Name(j)] = Absent
        /\ environ[EnvName(j)] = VNone
        /\ fields[j].default = MISSING
        /\ fields[j].default_factory = MISSING }

\* The --flag/$ENVVAR pair of the field at position j, written out for the
\* two settings of the options.
C4_Pair(j) ==
    IF underscore_to_dash
    THEN << <<"-","-","u","-","a","/","$","U","_","A">>,
            <<"-","-","b","/","$","B">>,
            <<"-","-","c","-","d","/","$","C","_","D">>,
            <<"-","-","e","/","$","E">> >>[j]
    ELSE << <<"-","-","u","_","a","/","$","P","_","U","_","A">>,
            <<"-","-","b","/","$","P","_","B">>,
            <<"-","-","c","_","d","/","$","P","_","C","_","D">>,
            <<"-","-","e","/","$","P","_","E">> >>[j]

RECURSIVE C4_Names(_)
\* The pairs of the missing fields from position j on, in declaration order,
\* separated by ", ".
C4_Names(j) ==
    IF j > NFields THEN <<>>
    ELSE IF j \notin C4_Missing THEN C4_Names(j + 1)
    ELSE C4_Pair(j) \o (IF \E l \in C4_Missing : l > j THEN <<",", " ">> ELSE <<>>)
            \o C4_Names(j + 1)

\* C4: when the pass over the fields ends with missing fields, parse prints a
\* usage line and exactly one error line, which names the pair of every missing
\* field in declaration order and nothing else, exits with status 1 and builds
\* no instance; when nothing is missing the instance has every declared field.
\* Before the end of the pass no field is reported as missing.
C4_MissingFieldsBatched ==
    /\ (pc \in {"returned", "exit"} /\ i > NFields /\ C4_Missing # {}) =>
            /\ pc = "exit"
            /\ exit_status = 1
            /\ instance = VNone
            /\ stdout = << UsageLine, [what |-> "error", required |-> C4_Names(1)] >>
    /\ (pc \in {"returned", "exit"} /\ i > NFields /\ C4_Missing = {}) =>
            /\ pc = "returned"
            /\ stdout = <<>>
            /\ DOMAIN instance = { Name(j) : j \in 1..NFields }
    /\ (pc \in {"start", "resolve", "raised"} \/ i <= NFields) =>
            /\ instance = VNone
            /\ \A l \in 1..Len(stdout) : "required" \notin DOMAIN stdout[l]

\* C4 witness: the call exited after a pass that found two missing fields.
C4_Witness ==
    /\ pc = "exit"
    /\ i > NFields
    /\ Len(missing) >= 2
    /\ Len(stdout) = 2

\* C5 (as claimed): no failure to convert a supplied value leaves parse as a
\* raised exception.
C5_NoConversionErrorIsRaised ==
    pc = "raised" => exc.msg \notin ConversionMessages

\* C6 (as claimed): for a type Optional(inner), the strings "", "none", "None"
\* and "null" give None, and every other string that inner does not convert
\* fails.
C6_OptionalCoercion ==
    ( /\ call_ret # Pending
      /\ call_t.tag = "union"
      /\ Len(call_t.args) = 2
      /\ call_t.args[2] = TNone
      /\ call_v.k = "str" ) =>
        /\ call_v.v \in { <<>>, <<"n","o","n","e">>, <<"N","o","n","e">>, <<"n","u","l","l">> } =>
                call_ret = Ok(VNone)
        /\ ( /\ call_v.v \notin { <<>>, <<"n","o","n","e">>, <<"N","o","n","e">>,
                                  <<"n","u","l","l">> }
             /\ ~_to_type(call_t.args[1], call_v, 0).ok ) =>
                ~call_ret.ok

\* The string s is the keyword w up to the case of its letters.
C7_Matches(s, w) ==
    /\ Len(s) = Len(w)
    /\ \A j \in 1..Len(s) :
        s[j] = w[j] \/ (s[j] \in DOMAIN UpperToLower /\ UpperToLower[s[j]] = w[j])

C7_TrueKeywords ==
    { <<"y">>, <<"y","e","s">>, <<"t">>, <<"t","r","u","e">>, <<"o","n">>, <<"1">> }

C7_FalseKeywords ==
    { <<"n">>, <<"n","o">>, <<"f">>, <<"f","a","l","s","e">>, <<"o","f","f">>, <<"0">> }

\* C7: _to_type(bool, s) is True for a string that is one of y, yes, t, true,
\* on, 1 up to case, False for one that is one of n, no, f, false, off, 0 up to
\* case, and fails for every other string; a bare flag of a bool field on the
\* command line gives True.
C7_BoolCoercion ==
    /\ (call_ret # Pending /\ call_t = TBool /\ call_v.k = "str") =>
        IF \E w \in C7_TrueKeywords : C7_Matches(call_v.v, w) THEN call_ret = Ok(VBool(TRUE))
        ELSE IF \E w \in C7_FalseKeywords : C7_Matches(call_v.v, w) THEN call_ret = Ok(VBool(FALSE))
        ELSE ~call_ret.ok
    /\ \A j \in 1..NFields :
        (j < i /\ fields[j].type = TBool /\ argv[Name(j)] = VBool(TRUE)) =>
            /\ Name(j) \in DOMAIN config
            /\ config[Name(j)] = VBool(TRUE)

\* C7 witness: a keyword in mixed case was converted to True.
C7_Witness ==
    /\ call_t = TBool
    /\ call_v = VStr(<<"Y","e","s">>)
    /\ call_ret = Ok(VBool(TRUE))

\* A list type whose element type is a list, directly or inside a union.
C8_IsNestedList(t) ==
    /\ t.tag = "list"
    /\ Len(t.args) = 1
    /\ \/ t.args[1].tag = "list"
       \/ /\ t.args[1].tag = "union"
          /\ \E l \in 1..Len(t.args[1].args) : t.args[1].args[l].tag = "list"

\* C8 (as claimed): parse never returns an instance for a schema with a field
\* of a list-of-list type.
C8_NestedListNeverAccepted ==
    pc = "returned" => \A j \in 1..NFields : ~C8_IsNestedList(fields[j].type)

\* C9 (as claimed): a schema-level error never goes through the usage message
\* and exit status 1.
C9_SchemaErrorsNeverExit ==
    (pc = "exit" /\ caught # VNone) => caught.msg \notin SchemaMessages

\* A conversion of the value of field i failed: the exception left parse from
\* the command-line branch, or the env branch caught it.
C10_Failed == (exc # VNone /\ i >= 1) \/ caught # VNone

\* C10: fields are resolved in declaration order, and a failed conversion at
\* field i ends the call there: nothing can follow, no later field has been or
\* will be looked up, converted or given a default, the missing fields are not
\* reported and no instance is built.
C10_FailureIsTerminal ==
    /\ i >= 1 =>
        /\ DOMAIN config \subseteq { Name(j) : j \in 1..(i - 1) }
        /\ Len(missing) <= i - 1
        /\ \A j \in 1..NFields :
            (j > i \/ (j = i /\ pc = "resolve")) =>
                /\ environ_gets[EnvName(j)] = 0
                /\ factory_calls[Name(j)] = 0
    /\ C10_Failed =>
        /\ pc \in {"exit", "raised"}
        /\ ~ENABLED Next
        /\ i <= NFields
        /\ Name(i) \notin DOMAIN config
        /\ instance = VNone
        /\ \A l \in 1..Len(stdout) : "required" \notin DOMAIN stdout[l]

\* C10 witness: the conversion of the first field failed after nothing had
\* been resolved for the second.
C10_Witness ==
    /\ C10_Failed
    /\ i = 1
    /\ NFields >= 2
    /\ argv[Name(2)] = Absent
    /\ fields[2].default_factory # MISSING

====
